---- MODULE Spec2Model ----
(***************************************************************************)
(* The allocation request state machine of the OrganLink backend: the     *)
(* hospital matching routes (send-request, respond, complete-transplant)  *)
(* and the patient/donor routes that write the same tables.  The storage  *)
(* is the shared relational store; every pool.query is one statement, and *)
(* no handler of the matching routes opens a transaction.                 *)
(***************************************************************************)
EXTENDS Integers, Sequences, FiniteSets, TLC

\* ---------------------------------------------------------------- bounds
NumHospitals == 2
NumPatients == 2
NumDonors == 2
MaxRequests == 2
MaxNotifs == 3
NumSessions == 2
MaxFaults == 1

NULL == 0

Hospitals == 1..NumHospitals
PatientIds == 1..NumPatients
DonorIds == 1..NumDonors
RequestIds == 1..MaxRequests
Sessions == 1..NumSessions

\* the hospital that registered patient p / donor d (hospital_id is set from
\* the authenticated hospital at registration and never updated)
PatientHospital(p) == ((p - 1) % NumHospitals) + 1
DonorHospital(d) == ((d - 1) % NumHospitals) + 1

VARIABLES patients, donors, organ_requests, notifications, sessions, faults,
          matching

vars ==
  <<patients, donors, organ_requests, notifications, sessions, faults, matching>>
tables == <<patients, donors, organ_requests, notifications>>

\* the four tables as one value, so that a statement is a function on it
DB ==
  [patients |-> patients, donors |-> donors,
   organ_requests |-> organ_requests, notifications |-> notifications]

Commit(db) ==
  /\ patients' = db.patients
  /\ donors' = db.donors
  /\ organ_requests' = db.organ_requests
  /\ notifications' = db.notifications

\* ------------------------------------------------------------------ rows
NewPatient(h) ==
  [exists |-> TRUE, hospital_id |-> h, status |-> "Waiting",
   matched_donor_id |-> NULL, matched_hospital_id |-> NULL]

NewDonor(h) ==
  [exists |-> TRUE, hospital_id |-> h, status |-> "Available",
   matched_patient_id |-> NULL, matched_hospital_id |-> NULL]

NoPatient ==
  [exists |-> FALSE, hospital_id |-> NULL, status |-> "Deleted",
   matched_donor_id |-> NULL, matched_hospital_id |-> NULL]

NoDonor ==
  [exists |-> FALSE, hospital_id |-> NULL, status |-> "Deleted",
   matched_patient_id |-> NULL, matched_hospital_id |-> NULL]

NoArgs ==
  [hospital |-> NULL, from |-> NULL, to |-> NULL, patient_id |-> NULL,
   donor_id |-> NULL, request_id |-> NULL, status |-> "none", seen |-> "none"]

\* no matching call has been made
NoMatching == [pc |-> "idle"]

\* a connection with no request in flight
IdleSession == [pc |-> "idle", op |-> "none", a |-> NoArgs, j |-> 0, code |-> 0]

\* ------------------------------------------------------------ statements
\* INSERT INTO organ_requests (...) VALUES (...)
InsertOrganRequest(db, from, to, p, d, st) ==
  [db EXCEPT !.organ_requests =
     Append(@, [from_hospital_id |-> from, to_hospital_id |-> to,
                patient_id |-> p, donor_id |-> d, status |-> st])]

\* (mutant) the UPDATE without its matched_hospital_id column
UpdatePatientRequested_NoHospital(db, p, st, d, h) ==
  IF db.patients[p].exists
  THEN [db EXCEPT !.patients[p].status = st,
                  !.patients[p].matched_donor_id = d]
  ELSE db

\* UPDATE patients SET status = $1, matched_donor_id = $2,
\*   matched_hospital_id = $3 WHERE patient_id = $4
UpdatePatientRequested(db, p, st, d, h) ==
  IF db.patients[p].exists
  THEN [db EXCEPT !.patients[p].status = st,
                  !.patients[p].matched_donor_id = d,
                  !.patients[p].matched_hospital_id = h]
  ELSE db

\* UPDATE donors SET status = 'Matched', matched_patient_id = $1 WHERE donor_id = $2
UpdateDonorInternal(db, p, d) ==
  IF db.donors[d].exists
  THEN [db EXCEPT !.donors[d].status = "Matched",
                  !.donors[d].matched_patient_id = p]
  ELSE db

\* INSERT INTO notifications (...) VALUES (..., is_read = false)
InsertNotification(db, h, type, rid, st) ==
  [db EXCEPT !.notifications =
     Append(@, [hospital_id |-> h, type |-> type, related_id |-> rid,
                status |-> st, is_read |-> FALSE])]

\* UPDATE organ_requests SET status = $1, ... WHERE request_id = $3
UpdateRequestStatus(db, rid, st) ==
  IF rid \in DOMAIN db.organ_requests
  THEN [db EXCEPT !.organ_requests[rid].status = st]
  ELSE db

\* UPDATE patients SET status = 'Matched' WHERE patient_id = $1
UpdatePatientMatched(db, p) ==
  IF db.patients[p].exists
  THEN [db EXCEPT !.patients[p].status = "Matched"]
  ELSE db

\* UPDATE donors SET status = 'Matched', matched_patient_id = $1,
\*   matched_hospital_id = $2 WHERE donor_id = $3
UpdateDonorMatched(db, p, h, d) ==
  IF db.donors[d].exists
  THEN [db EXCEPT !.donors[d].status = "Matched",
                  !.donors[d].matched_patient_id = p,
                  !.donors[d].matched_hospital_id = h]
  ELSE db

\* (mutant) the UPDATE that resets the status and keeps the matched donor
UpdatePatientWaiting_KeepsDonor(db, p) ==
  IF db.patients[p].exists
  THEN [db EXCEPT !.patients[p].status = "Waiting",
                  !.patients[p].matched_hospital_id = NULL]
  ELSE db

\* UPDATE patients SET status = 'Waiting', matched_donor_id = NULL,
\*   matched_hospital_id = NULL WHERE patient_id = $1
UpdatePatientWaiting(db, p) ==
  IF db.patients[p].exists
  THEN [db EXCEPT !.patients[p].status = "Waiting",
                  !.patients[p].matched_donor_id = NULL,
                  !.patients[p].matched_hospital_id = NULL]
  ELSE db

\* (mutant) the response handlers without their last UPDATE
MarkNotificationsRead_Skipped(db, rid, h) == db

\* UPDATE notifications SET is_read = true WHERE related_id = $1 AND hospital_id = $2
MarkNotificationsRead(db, rid, h) ==
  [db EXCEPT !.notifications =
     [i \in DOMAIN @ |->
        IF @[i].related_id = rid /\ @[i].hospital_id = h
        THEN [@[i] EXCEPT !.is_read = TRUE]
        ELSE @[i]]]

\* UPDATE patients SET status = 'Completed', completed_at = ... WHERE patient_id = $1
UpdatePatientCompleted(db, p) ==
  IF db.patients[p].exists
  THEN [db EXCEPT !.patients[p].status = "Completed"]
  ELSE db

\* UPDATE donors SET status = 'Donated', donated_at = ... WHERE donor_id = $1
UpdateDonorDonated(db, d) ==
  IF db.donors[d].exists
  THEN [db EXCEPT !.donors[d].status = "Donated"]
  ELSE db

\* UPDATE organ_requests SET status = 'completed' WHERE patient_id = $2 AND donor_id = $3
UpdateRequestsCompleted(db, p, d) ==
  [db EXCEPT !.organ_requests =
     [i \in DOMAIN @ |->
        IF @[i].patient_id = p /\ @[i].donor_id = d
        THEN [@[i] EXCEPT !.status = "completed"]
        ELSE @[i]]]

\* DELETE FROM patients WHERE patient_id = $1 AND hospital_id = $2
DeletePatientRow(db, p) == [db EXCEPT !.patients[p] = NoPatient]

\* DELETE FROM donors WHERE donor_id = $1 AND hospital_id = $2
DeleteDonorRow(db, d) == [db EXCEPT !.donors[d] = NoDonor]

\* -------------------------------------------------------------- handlers
\* Each handler's writes, in the order of its pool.query calls.  Write j of a
\* handler is a function of the tables; a handler that ends normally has
\* applied all of them, one that throws at a statement has applied the ones
\* before it (there is no BEGIN/ROLLBACK in these routes).

\* POST /send-request ---------------------------------------------------
isSameHospital(a) == a.from = a.to

initialStatus(a) == IF isSameHospital(a) THEN "accepted" ELSE "pending"

patientStatus(a) == IF isSameHospital(a) THEN "Matched" ELSE "In Progress"

SendRequestWrites == 4

SendRequestWrite(db, a, j) ==
  CASE j = 1 -> InsertOrganRequest(db, a.from, a.to, a.patient_id, a.donor_id,
                                   initialStatus(a))
    [] j = 2 -> UpdatePatientRequested(db, a.patient_id, patientStatus(a),
                                       a.donor_id, a.to)
    [] j = 3 -> IF isSameHospital(a)
                THEN UpdateDonorInternal(db, a.patient_id, a.donor_id)
                ELSE db
    [] j = 4 -> IF isSameHospital(a)
                THEN InsertNotification(db, a.from, "internal_match",
                                        a.request_id, "accepted")
                ELSE InsertNotification(db, a.to, "organ_request",
                                        a.request_id, "pending")

RECURSIVE SendRequestPrefix(_, _, _)
SendRequestPrefix(db, a, k) ==
  IF k = 0 THEN db
  ELSE SendRequestWrite(SendRequestPrefix(db, a, k - 1), a, k)

\* "SELECT ... FROM patients WHERE patient_id = $1 AND hospital_id = $2"
PatientOfHospital(db, p, h) ==
  db.patients[p].exists /\ db.patients[p].hospital_id = h

\* what the handler holds after its SELECTs: the caller, the body's fields and
\* the request id it generated
SendRequestArgs(db, h, p, d, to) ==
  [hospital |-> h, from |-> h, to |-> to, patient_id |-> p, donor_id |-> d,
   request_id |-> Len(db.organ_requests) + 1, status |-> "none",
   seen |-> "none"]

SendRequest(h, p, d, to, code) ==
  LET a == SendRequestArgs(DB, h, p, d, to) IN
  /\ IF d = NULL
     THEN /\ code = 400
          /\ UNCHANGED tables
     ELSE IF ~PatientOfHospital(DB, p, h)
     THEN /\ code = 404
          /\ UNCHANGED tables
     ELSE /\ code = 200
          /\ Len(organ_requests) < MaxRequests
          /\ Len(notifications) < MaxNotifs
          /\ Commit(SendRequestPrefix(DB, a, SendRequestWrites))
  /\ UNCHANGED <<sessions, faults, matching>>

\* POST /requests/:request_id/respond -----------------------------------
\* the values of the body's status the handler goes on with
Decisions == {"accepted", "rejected"}

RespondWrites == 5

RespondWrite(db, a, j) ==
  CASE j = 1 -> UpdateRequestStatus(db, a.request_id, a.status)
    [] j = 2 -> IF a.status = "accepted"
                THEN UpdatePatientMatched(db, a.patient_id)
                ELSE UpdatePatientWaiting(db, a.patient_id)
    [] j = 3 -> IF a.status = "accepted"
                THEN UpdateDonorMatched(db, a.patient_id, a.from, a.donor_id)
                ELSE db
    [] j = 4 -> InsertNotification(db, a.from, "request_response",
                                   a.request_id, a.status)
    [] j = 5 -> MarkNotificationsRead(db, a.request_id, a.hospital)

RECURSIVE RespondPrefix(_, _, _)
RespondPrefix(db, a, k) ==
  IF k = 0 THEN db
  ELSE RespondWrite(RespondPrefix(db, a, k - 1), a, k)

\* (mutant) the SELECTs without the to_hospital_id = $2 condition of the last
RespondFound_AnyHospital(db, h, rid) ==
  /\ rid \in DOMAIN db.organ_requests
  /\ db.patients[db.organ_requests[rid].patient_id].exists
  /\ db.donors[db.organ_requests[rid].donor_id].exists

\* the four SELECTs before the first write: the request, its patient, its
\* donor, and the request joined with its patient for the responding hospital
RespondFound(db, h, rid) ==
  /\ rid \in DOMAIN db.organ_requests
  /\ db.patients[db.organ_requests[rid].patient_id].exists
  /\ db.donors[db.organ_requests[rid].donor_id].exists
  /\ db.organ_requests[rid].to_hospital_id = h

\* what the handler holds after its SELECTs: the caller, the body's status and
\* the fetched organ_requests row (seen is the row's status when it was read)
RespondArgs(db, h, rid, st) ==
  [hospital |-> h, from |-> db.organ_requests[rid].from_hospital_id,
   to |-> db.organ_requests[rid].to_hospital_id,
   patient_id |-> db.organ_requests[rid].patient_id,
   donor_id |-> db.organ_requests[rid].donor_id,
   request_id |-> rid, status |-> st,
   seen |-> db.organ_requests[rid].status]

RespondToRequest(h, rid, st, code) ==
  /\ IF st \notin Decisions
     THEN /\ code = 400
          /\ UNCHANGED tables
     ELSE IF ~RespondFound(DB, h, rid)
     THEN /\ code = 404
          /\ UNCHANGED tables
     ELSE /\ code = 200
          /\ Len(notifications) < MaxNotifs
          /\ Commit(RespondPrefix(DB, RespondArgs(DB, h, rid, st), RespondWrites))
  /\ UNCHANGED <<sessions, faults, matching>>

\* POST /respond (the older route, still mounted) -----------------------
LegacyRespondWrites == 3

LegacyStatus(response) == IF response = "accept" THEN "accepted" ELSE "rejected"

LegacyRespondWrite(db, a, j) ==
  CASE j = 1 -> UpdateRequestStatus(db, a.request_id, a.status)
    [] j = 2 -> InsertNotification(db, a.from, "request_response",
                                   a.request_id, a.status)
    [] j = 3 -> MarkNotificationsRead(db, a.request_id, a.hospital)

RECURSIVE LegacyRespondPrefix(_, _, _)
LegacyRespondPrefix(db, a, k) ==
  IF k = 0 THEN db
  ELSE LegacyRespondWrite(LegacyRespondPrefix(db, a, k - 1), a, k)

\* organ_requests JOIN patients ... WHERE request_id = $1 AND to_hospital_id = $2
LegacyRespondFound(db, h, rid) ==
  /\ rid \in DOMAIN db.organ_requests
  /\ db.patients[db.organ_requests[rid].patient_id].exists
  /\ db.organ_requests[rid].to_hospital_id = h

LegacyRespond(h, rid, response, code) ==
  /\ IF response \notin {"accept", "reject"}
     THEN /\ code = 400
          /\ UNCHANGED tables
     ELSE IF ~LegacyRespondFound(DB, h, rid)
     THEN /\ code = 404
          /\ UNCHANGED tables
     ELSE /\ code = 200
          /\ Len(notifications) < MaxNotifs
          /\ Commit(LegacyRespondPrefix(
                      DB, RespondArgs(DB, h, rid, LegacyStatus(response)),
                      LegacyRespondWrites))
  /\ UNCHANGED <<sessions, faults, matching>>

\* POST /complete-transplant --------------------------------------------
CompleteWrites == 3

CompleteWrite(db, a, j) ==
  CASE j = 1 -> UpdatePatientCompleted(db, a.patient_id)
    [] j = 2 -> UpdateDonorDonated(db, a.donor_id)
    [] j = 3 -> UpdateRequestsCompleted(db, a.patient_id, a.donor_id)

RECURSIVE CompletePrefix(_, _, _)
CompletePrefix(db, a, k) ==
  IF k = 0 THEN db
  ELSE CompleteWrite(CompletePrefix(db, a, k - 1), a, k)

\* (mutant) the SELECT without its status = 'Matched' condition
MatchedPatientOfHospital_AnyStatus(db, p, h) ==
  PatientOfHospital(db, p, h)

\* "... WHERE patient_id = $1 AND hospital_id = $2 AND status = 'Matched'"
MatchedPatientOfHospital(db, p, h) ==
  PatientOfHospital(db, p, h) /\ db.patients[p].status = "Matched"

CompleteArgs(h, p, d) ==
  [hospital |-> h, from |-> h, to |-> NULL, patient_id |-> p, donor_id |-> d,
   request_id |-> NULL, status |-> "none", seen |-> "none"]

CompleteTransplant(h, p, d, code) ==
  /\ IF d = NULL
     THEN /\ code = 400
          /\ UNCHANGED tables
     ELSE IF ~MatchedPatientOfHospital(DB, p, h)
     THEN /\ code = 404
          /\ UNCHANGED tables
     ELSE /\ code = 200
          /\ Commit(CompletePrefix(DB, [patient_id |-> p, donor_id |-> d],
                                   CompleteWrites))
  /\ UNCHANGED <<sessions, faults, matching>>

\* PATCH /:patient_id/complete-transplant (hospital patients route) -----
PatchCompleteTransplant(h, p, code) ==
  /\ IF ~PatientOfHospital(DB, p, h)
     THEN /\ code = 404
          /\ UNCHANGED tables
     ELSE IF patients[p].status # "Matched"
     THEN /\ code = 400
          /\ UNCHANGED tables
     ELSE /\ code = 200
          /\ Commit(UpdatePatientCompleted(DB, p))
  /\ UNCHANGED <<sessions, faults, matching>>

\* DELETE /:patient_id and DELETE /:donor_id ----------------------------
DeletePatient(h, p, code) ==
  /\ IF ~PatientOfHospital(DB, p, h)
     THEN /\ code = 404
          /\ UNCHANGED tables
     ELSE /\ code = 200
          /\ Commit(DeletePatientRow(DB, p))
  /\ UNCHANGED <<sessions, faults, matching>>

DeleteDonor(h, d, code) ==
  /\ IF ~(donors[d].exists /\ donors[d].hospital_id = h)
     THEN /\ code = 404
          /\ UNCHANGED tables
     ELSE /\ code = 200
          /\ Commit(DeleteDonorRow(DB, d))
  /\ UNCHANGED <<sessions, faults, matching>>

\* ------------------------------------------------------- specifications
Init ==
  /\ patients = [p \in PatientIds |-> NewPatient(PatientHospital(p))]
  /\ donors = [d \in DonorIds |-> NewDonor(DonorHospital(d))]
  /\ organ_requests = <<>>
  /\ notifications = <<>>
  /\ sessions = [s \in Sessions |-> IdleSession]
  /\ faults = 0
  /\ matching = NoMatching

\* the HTTP status of a response
Codes == {200, 400, 404, 500}

\* what a request body can carry: a donor_id or none, a status or response
\* word that is one of the two decisions or something else
BodyDonorIds == DonorIds \cup {NULL}
BodyStatuses == Decisions \cup {"cancelled"}
BodyResponses == {"accept", "reject", "cancel"}

Next ==
  \/ \E h \in Hospitals, p \in PatientIds, d \in BodyDonorIds, to \in Hospitals,
        code \in Codes : SendRequest(h, p, d, to, code)
  \/ \E h \in Hospitals, rid \in RequestIds, st \in BodyStatuses,
        code \in Codes : RespondToRequest(h, rid, st, code)
  \/ \E h \in Hospitals, rid \in RequestIds, r \in BodyResponses,
        code \in Codes : LegacyRespond(h, rid, r, code)
  \/ \E h \in Hospitals, p \in PatientIds, d \in BodyDonorIds, code \in Codes :
       CompleteTransplant(h, p, d, code)
  \/ \E h \in Hospitals, p \in PatientIds, code \in Codes :
       PatchCompleteTransplant(h, p, code)
  \/ \E h \in Hospitals, p \in PatientIds, code \in Codes :
       DeletePatient(h, p, code)
  \/ \E h \in Hospitals, d \in DonorIds, code \in Codes :
       DeleteDonor(h, d, code)

Spec == Init /\ [][Next]_vars

\* ------------------------------------------------- a statement that throws
\* pool.query rejects (connection lost, constraint, timeout): the handler's
\* catch block answers 500.  The k writes before the failing statement have
\* been executed, each in its own implicit transaction, and stay.  faults
\* counts the statements that have thrown so far.
SendRequestThrows(h, p, d, to, k) ==
  /\ k = 0 \/ PatientOfHospital(DB, p, h)
  /\ Len(organ_requests) < MaxRequests
  /\ Len(notifications) < MaxNotifs
  /\ Commit(SendRequestPrefix(DB, SendRequestArgs(DB, h, p, d, to), k))
  /\ UNCHANGED <<sessions, matching>>
  /\ faults < MaxFaults
  /\ faults' = faults + 1

RespondThrows(h, rid, st, k) ==
  /\ UNCHANGED <<sessions, matching>>
  /\ faults < MaxFaults
  /\ faults' = faults + 1
  /\ IF k = 0
     THEN UNCHANGED tables
     ELSE /\ RespondFound(DB, h, rid)
          /\ Len(notifications) < MaxNotifs
          /\ Commit(RespondPrefix(DB, RespondArgs(DB, h, rid, st), k))

CompleteTransplantThrows(h, p, d, k) ==
  /\ k = 0 \/ MatchedPatientOfHospital(DB, p, h)
  /\ Commit(CompletePrefix(DB, CompleteArgs(h, p, d), k))
  /\ UNCHANGED <<sessions, matching>>
  /\ faults < MaxFaults
  /\ faults' = faults + 1

\* some handler of a multi-record transition answers 500
SomeHandlerThrows ==
  \/ \E h \in Hospitals, p \in PatientIds, d \in DonorIds, to \in Hospitals,
        k \in 0..(SendRequestWrites - 1) : SendRequestThrows(h, p, d, to, k)
  \/ \E h \in Hospitals, rid \in RequestIds, st \in {"accepted", "rejected"},
        k \in 0..(RespondWrites - 1) : RespondThrows(h, rid, st, k)
  \/ \E h \in Hospitals, p \in PatientIds, d \in DonorIds,
        k \in 0..(CompleteWrites - 1) : CompleteTransplantThrows(h, p, d, k)

\* the three multi-record transitions, each ending normally or at a throw
NextFail ==
  \/ \E h \in Hospitals, p \in PatientIds, d \in DonorIds, to \in Hospitals,
        code \in Codes : SendRequest(h, p, d, to, code)
  \/ \E h \in Hospitals, rid \in RequestIds, st \in {"accepted", "rejected"},
        code \in Codes : RespondToRequest(h, rid, st, code)
  \/ \E h \in Hospitals, p \in PatientIds, d \in DonorIds, code \in Codes :
       CompleteTransplant(h, p, d, code)
  \/ SomeHandlerThrows

SpecFail == Init /\ [][NextFail]_vars

\* ------------------------------------------- handlers running concurrently
\* Node serves each request on the shared pool; a handler yields at every
\* await pool.query, so the statements of two requests interleave.  A session
\* is one request in flight: after its SELECTs it holds the values it read
\* (a) and the index of its next write (j).
Free(s) == sessions[s].pc \in {"idle", "done"}

Writing == {s \in Sessions : sessions[s].pc = "write"}

Answered(op, a, code) ==
  [pc |-> "done", op |-> op, a |-> a, j |-> 0, code |-> code]

InFlight(op, a) == [pc |-> "write", op |-> op, a |-> a, j |-> 1, code |-> 0]

\* the SELECTs of POST /send-request.  (The patient row it checks can only
\* disappear, so reading in one step loses no outcome.)
SendRequestSelect(s, h, p, d, to) ==
  /\ Free(s)
  /\ UNCHANGED <<tables, faults, matching>>
  /\ IF ~PatientOfHospital(DB, p, h)
     THEN sessions' = [sessions EXCEPT ![s] =
                         Answered("send-request", NoArgs, 404)]
     ELSE /\ Len(organ_requests) + Cardinality(Writing) < MaxRequests
          /\ Len(notifications) + Cardinality(Writing) < MaxNotifs
          /\ sessions' = [sessions EXCEPT ![s] =
                            InFlight("send-request",
                                     SendRequestArgs(DB, h, p, d, to))]

\* the next write of POST /send-request; the request is named by its place
\* in the table, fixed when the INSERT runs
SendRequestStep(s) ==
  LET c == sessions[s]
      a == IF c.j = 1
           THEN [c.a EXCEPT !.request_id = Len(organ_requests) + 1]
           ELSE c.a
  IN
  /\ c.pc = "write" /\ c.op = "send-request"
  /\ UNCHANGED <<faults, matching>>
  /\ Commit(SendRequestWrite(DB, a, c.j))
  /\ sessions' = [sessions EXCEPT ![s] =
                    IF c.j = SendRequestWrites
                    THEN Answered("send-request", a, 200)
                    ELSE [c EXCEPT !.a = a, !.j = c.j + 1]]

\* the four SELECTs of POST /requests/:request_id/respond.  (A request row is
\* never deleted and its hospital, patient and donor never change; a patient
\* or donor row can only disappear: the checks pass at their four times only
\* if they pass together at the time of the donor check.)
RespondSelect(s, h, rid, st) ==
  /\ Free(s)
  /\ UNCHANGED <<tables, faults, matching>>
  /\ IF ~RespondFound(DB, h, rid)
     THEN sessions' = [sessions EXCEPT ![s] = Answered("respond", NoArgs, 404)]
     ELSE /\ Len(notifications) + Cardinality(Writing) < MaxNotifs
          /\ sessions' = [sessions EXCEPT ![s] =
                            InFlight("respond", RespondArgs(DB, h, rid, st))]

\* the next write of POST /requests/:request_id/respond
RespondStep(s) ==
  LET c == sessions[s] IN
  /\ c.pc = "write" /\ c.op = "respond"
  /\ UNCHANGED <<faults, matching>>
  /\ Commit(RespondWrite(DB, c.a, c.j))
  /\ sessions' = [sessions EXCEPT ![s] =
                    IF c.j = RespondWrites
                    THEN Answered("respond", c.a, 200)
                    ELSE [c EXCEPT !.j = c.j + 1]]

NextConc ==
  \/ \E s \in Sessions, h \in Hospitals, p \in PatientIds, d \in DonorIds,
        to \in Hospitals : SendRequestSelect(s, h, p, d, to)
  \/ \E s \in Sessions : SendRequestStep(s)
  \/ \E s \in Sessions, h \in Hospitals, rid \in RequestIds,
        st \in {"accepted", "rejected"} : RespondSelect(s, h, rid, st)
  \/ \E s \in Sessions : RespondStep(s)

SpecConc == Init /\ [][NextConc]_vars

\* ------------------------------------------------------ blood compatibility
BloodTypes == {"O-", "O+", "A-", "A+", "B-", "B+", "AB-", "AB+"}

\* AIMatchingService.bloodCompatibility: for each blood type, the types its
\* holder can donate to
bloodCompatibility ==
  [t \in BloodTypes |->
     CASE t = "A+" -> {"A+", "AB+"}
       [] t = "A-" -> {"A+", "A-", "AB+", "AB-"}
       [] t = "B+" -> {"B+", "AB+"}
       [] t = "B-" -> {"B+", "B-", "AB+", "AB-"}
       [] t = "AB+" -> {"AB+"}
       [] t = "AB-" -> {"AB+", "AB-"}
       [] t = "O+" -> {"A+", "B+", "AB+", "O+"}
       [] t = "O-" -> {"A+", "A-", "B+", "B-", "AB+", "AB-", "O+", "O-"}]

\* (mutant) the scorer without its perfect-match branch
calculateCompatibilityScore_NoPerfect(patientBloodType, donorBloodType) ==
  IF /\ donorBloodType \in DOMAIN bloodCompatibility
     /\ patientBloodType \in bloodCompatibility[donorBloodType]
  THEN 80
  ELSE 0

\* AIMatchingService.calculateCompatibilityScore
calculateCompatibilityScore(patientBloodType, donorBloodType) ==
  IF patientBloodType = donorBloodType
  THEN 100
  ELSE IF /\ donorBloodType \in DOMAIN bloodCompatibility
          /\ patientBloodType \in bloodCompatibility[donorBloodType]
  THEN 80
  ELSE 0

\* one row of the table of calculateBloodCompatibility, its columns in the
\* order of the source
CompatibilityRow(oNeg, oPos, aNeg, aPos, bNeg, bPos, abNeg, abPos) ==
  [t \in BloodTypes |->
     CASE t = "O-" -> oNeg
       [] t = "O+" -> oPos
       [] t = "A-" -> aNeg
       [] t = "A+" -> aPos
       [] t = "B-" -> bNeg
       [] t = "B+" -> bPos
       [] t = "AB-" -> abNeg
       [] t = "AB+" -> abPos]

\* the table of calculateBloodCompatibility: compatibility[patient][donor]
compatibility ==
  [t \in BloodTypes |->
     CASE t = "O-" -> CompatibilityRow(100, 95, 90, 85, 90, 85, 85, 80)
       [] t = "O+" -> CompatibilityRow(85, 100, 0, 90, 0, 90, 0, 85)
       [] t = "A-" -> CompatibilityRow(95, 85, 100, 95, 0, 0, 85, 80)
       [] t = "A+" -> CompatibilityRow(85, 90, 85, 100, 0, 0, 0, 85)
       [] t = "B-" -> CompatibilityRow(95, 85, 0, 0, 100, 95, 85, 80)
       [] t = "B+" -> CompatibilityRow(85, 90, 0, 0, 85, 100, 0, 85)
       [] t = "AB-" -> CompatibilityRow(90, 80, 90, 80, 90, 80, 100, 95)
       [] t = "AB+" -> CompatibilityRow(85, 85, 85, 85, 85, 85, 90, 100)]

\* calculateBloodCompatibility: compatibility[patientBlood]?.[donorBlood] || 0
calculateBloodCompatibility(patientBlood, donorBlood) ==
  IF patientBlood \in DOMAIN compatibility
     /\ donorBlood \in DOMAIN compatibility[patientBlood]
  THEN compatibility[patientBlood][donorBlood]
  ELSE 0

\* The two scorers applied to one (patient, donor) pair of blood types.
\* matching holds the pair and, once a scorer has run, its score.
BloodPair(p, d) ==
  [pc |-> "blood", patientBlood |-> p, donorBlood |-> d,
   bloodCompatibility |-> <<>>, compatibilityScore |-> <<>>]

InitBlood ==
  /\ patients = [p \in PatientIds |-> NewPatient(PatientHospital(p))]
  /\ donors = [d \in DonorIds |-> NewDonor(DonorHospital(d))]
  /\ organ_requests = <<>>
  /\ notifications = <<>>
  /\ sessions = [s \in Sessions |-> IdleSession]
  /\ faults = 0
  /\ \E p \in BloodTypes, d \in BloodTypes : matching = BloodPair(p, d)

\* findEnhancedMatches scores the pair
ScoreBloodCompatibility ==
  /\ matching.pc = "blood"
  /\ matching.bloodCompatibility = <<>>
  /\ matching' =
       [matching EXCEPT !.bloodCompatibility =
          <<calculateBloodCompatibility(matching.patientBlood,
                                        matching.donorBlood)>>]
  /\ UNCHANGED <<tables, sessions, faults>>

\* findMatches scores the pair
ScoreCompatibility ==
  /\ matching.pc = "blood"
  /\ matching.compatibilityScore = <<>>
  /\ matching' =
       [matching EXCEPT !.compatibilityScore =
          <<calculateCompatibilityScore(matching.patientBlood,
                                        matching.donorBlood)>>]
  /\ UNCHANGED <<tables, sessions, faults>>

NextBlood == ScoreBloodCompatibility \/ ScoreCompatibility

SpecBlood == InitBlood /\ [][NextBlood]_vars

\* ------------------------------------------------------------- sub-scores
\* String.prototype.toLowerCase over the words the model uses
toLowerCase(w) ==
  CASE w = "Kidney" -> "kidney"
    [] w = "Kidneys" -> "kidneys"
    [] w = "Heart" -> "heart"
    [] w = "Liver" -> "liver"
    [] w = "Lung" -> "lung"
    [] w = "Lungs" -> "lungs"
    [] w = "Critical" -> "critical"
    [] w = "High" -> "high"
    [] w = "Medium" -> "medium"
    [] w = "Low" -> "low"
    [] OTHER -> w

\* s.replace(/s$/, "") over the (lower-case) words the model uses
StripFinalS(w) ==
  CASE w = "kidneys" -> "kidney"
    [] w = "lungs" -> "lung"
    [] w = "hearts" -> "heart"
    [] w = "livers" -> "liver"
    [] OTHER -> w

\* findEnhancedMatches.normalize: s.trim().toLowerCase().replace(/s$/, "")
normalize(w) == StripFinalS(toLowerCase(w))

\* text.includes(word): word is a substring of one of the words of the text
Includes(text, word) ==
  \E w \in text : w = word \/ (w = "kidneys" /\ word = "kidney")

Abs(n) == IF n < 0 THEN 0 - n ELSE n

Min(a, b) == IF a < b THEN a ELSE b

Max(a, b) == IF a > b THEN a ELSE b

\* Math.round of n / 100 for a non-negative integer n
RoundHundredths(n) == (n + 50) \div 100

\* calculateMedicalRiskScore (blockchain.ts)
calculateMedicalRiskScore(patient, donor) ==
  LET ageDiff == Abs(patient.age - donor.age)
      organ == toLowerCase(patient.organ_needed)
      byAgeGap == IF ageDiff > 20 THEN 0 - 15
                  ELSE IF ageDiff > 10 THEN 0 - 8
                  ELSE IF ageDiff <= 5 THEN 5
                  ELSE 0
      byGender == IF /\ patient.gender = donor.gender
                     /\ patient.organ_needed \in {"Heart", "Liver"}
                  THEN 5 ELSE 0
      byAgeGroup == IF patient.age < 18
                    THEN 10 + (IF donor.age < 30 THEN 5 ELSE 0)
                    ELSE IF patient.age > 65
                    THEN (IF donor.age > 65 THEN 0 - 10 ELSE 0)
                           + (IF donor.age < 50 THEN 5 ELSE 0)
                    ELSE 0
      byOrgan == CASE organ = "heart" ->
                        (IF ageDiff > 15 THEN 0 - 20 ELSE 0)
                          + (IF patient.urgency_level = "Critical"
                             THEN 15 ELSE 0)
                   [] organ = "kidney" -> IF ageDiff > 25 THEN 0 - 10 ELSE 0
                   [] organ = "liver" -> IF ageDiff > 20 THEN 0 - 15 ELSE 0
                   [] organ \in {"lung", "lungs"} ->
                        IF ageDiff > 10 THEN 0 - 25 ELSE 0
                   [] OTHER -> 0
  IN Max(0, Min(100, 100 + byAgeGap + byGender + byAgeGroup + byOrgan))

\* calculateUrgencyScore (blockchain.ts)
calculateUrgencyScore(urgencyLevel, age, organNeeded) ==
  LET level == toLowerCase(urgencyLevel)
      organ == toLowerCase(organNeeded)
      baseScore == CASE level = "critical" -> 100
                     [] level = "high" -> 75
                     [] level = "medium" -> 50
                     [] level = "low" -> 25
                     [] OTHER -> 25
      byAge == IF age < 18 THEN 15 ELSE IF age > 70 THEN 10 ELSE 0
      byOrgan == CASE organ = "heart" -> 20
                   [] organ = "liver" -> 15
                   [] organ \in {"lung", "lungs"} -> 10
                   [] organ = "kidney" -> 5
                   [] OTHER -> 0
  IN Min(100, baseScore + byAge + byOrgan)

\* calculateDistanceScoreByCityState (blockchain.ts): the score of the tier
calculateDistanceScoreByCityState(patientLocation, donorLocation) ==
  IF /\ patientLocation.city # "" /\ donorLocation.city # ""
     /\ toLowerCase(patientLocation.city) = toLowerCase(donorLocation.city)
  THEN 100
  ELSE IF /\ patientLocation.state # "" /\ donorLocation.state # ""
          /\ toLowerCase(patientLocation.state)
               = toLowerCase(donorLocation.state)
  THEN 75
  ELSE IF /\ patientLocation.country # "" /\ donorLocation.country # ""
          /\ toLowerCase(patientLocation.country)
               = toLowerCase(donorLocation.country)
  THEN 50
  ELSE 30

\* calculateTimeScore (blockchain.ts), on the days since the patient registered
calculateTimeScore(daysSinceRegistration) ==
  IF daysSinceRegistration > 365 THEN 100
  ELSE IF daysSinceRegistration > 180 THEN 90
  ELSE IF daysSinceRegistration > 90 THEN 80
  ELSE IF daysSinceRegistration > 30 THEN 70
  ELSE IF daysSinceRegistration > 14 THEN 60
  ELSE IF daysSinceRegistration > 7 THEN 50
  ELSE 40

\* AIMatchingService.urgencyScores[level] || 0
urgencyScores(level) ==
  CASE level = "Critical" -> 100
    [] level = "High" -> 75
    [] level = "Medium" -> 50
    [] level = "Low" -> 25
    [] OTHER -> 0

\* AIMatchingService.calculateDistanceScore: the score of the tier
AIMatchingService_calculateDistanceScore(patientLocation, donorLocation) ==
  IF /\ patientLocation.city # "" /\ donorLocation.city # ""
     /\ toLowerCase(patientLocation.city) = toLowerCase(donorLocation.city)
  THEN 100
  ELSE IF /\ patientLocation.state # "" /\ donorLocation.state # ""
          /\ toLowerCase(patientLocation.state)
               = toLowerCase(donorLocation.state)
  THEN 75
  ELSE IF /\ patientLocation.country # "" /\ donorLocation.country # ""
          /\ toLowerCase(patientLocation.country)
               = toLowerCase(donorLocation.country)
  THEN 50
  ELSE 30

\* AIMatchingService.calculateTimeScore, on the days since the donor registered
AIMatchingService_calculateTimeScore(daysDiff) ==
  IF daysDiff <= 7 THEN 100
  ELSE IF daysDiff <= 30 THEN 80
  ELSE IF daysDiff <= 90 THEN 60
  ELSE IF daysDiff <= 180 THEN 40
  ELSE 20

\* ------------------------------------------------------- matching: inputs
\* The matching calls read the patients, donors, hospitals and policies
\* tables and write nothing.  matching holds the rows a call reads (the
\* patient, the donors, the policies in the order created_at DESC) and, once
\* a call has answered, its answer.
NumMatchHospitals == 5

\* organizations that propose policies, and rows in the policies table
NumOrganizations == 2

MaxPolicies == 2

MatchHospitals == 1..NumMatchHospitals

\* hospitals.city, state, country: hospital 1 is the patient's; the others
\* are in its city, its state, its country and abroad
HospitalLocation(h) ==
  CASE h \in {1, 2} -> [city |-> "Chennai", state |-> "Tamil Nadu",
                        country |-> "India"]
    [] h = 3 -> [city |-> "Madurai", state |-> "Tamil Nadu", country |-> "India"]
    [] h = 4 -> [city |-> "Delhi", state |-> "Delhi", country |-> "India"]
    [] OTHER -> [city |-> "London", state |-> "England", country |-> "UK"]

PatientRows ==
  [patient_id : {1}, hospital_id : {1}, status : {"Waiting", "Completed"},
   blood_type : BloodTypes, organ_needed : {"Kidney", "Heart"},
   urgency_level : {"Low", "Critical"}, age : {40}, gender : {"Male"},
   days : {3, 400}]

DonorRows ==
  [donor_id : {1}, hospital_id : MatchHospitals,
   status : {"Available", "Matched"}, is_active : BOOLEAN,
   blood_type : BloodTypes,
   organs_to_donate : {{"Kidney"}, {"Kidneys"}, {"Heart"}},
   age : {40}, gender : {"Male"}, days : {3}]

\* the donors table: one registered donor
DonorTables == {<<d>> : d \in DonorRows}

\* a text column that holds SQL NULL
NullText == "<null>"

PolicyRow(title, words, status) ==
  [title |-> title, title_words |-> words, content_words |-> {},
   status |-> status, paused_for_matching |-> FALSE,
   votes_for |-> 3, total_votes |-> 4,
   is_withdrawn |-> FALSE, is_suspended |-> FALSE,
   proposer_org_id |-> 1, hours_since_creation |-> 1]

\* the policies table: empty, or one policy
PolicyTables ==
  {<<>>,
   <<PolicyRow("Kidney Allocation", {"kidney", "allocation"}, "active")>>,
   <<PolicyRow("Kidney Transport Priority",
               {"kidney", "transport", "priority"}, "voting")>>,
   <<PolicyRow("Critical Case Priority",
               {"critical", "case", "priority"}, "voting")>>}

\* the rows a matching call will read, no call made yet;
\* hospital_query_fails = k > 0: the hospitals query that
\* applyBlockchainPolicies makes for its k-th approved policy rejects
MatchingInput(patient, donorRows, policyRows) ==
  [pc |-> "ready", op |-> "none", code |-> 0,
   patient |-> patient, donors |-> donorRows, policies |-> policyRows,
   hospital_query_fails |-> 0,
   matches |-> <<>>, policy_applied |-> FALSE, policy_title |-> ""]

\* a call has answered
MatchingAnswer(op, code, matches, applied, title) ==
  [matching EXCEPT !.pc = "done", !.op = op, !.code = code,
                   !.matches = matches, !.policy_applied = applied,
                   !.policy_title = title]

\* ------------------------------------------------------- matching: sorting
\* Array.prototype.sort((a, b) => b.match_score - a.match_score): stable,
\* descending.  m goes behind the elements that score at least as much.
InsertByScore(sorted, m) ==
  LET k == Cardinality({i \in DOMAIN sorted :
                          sorted[i].match_score >= m.match_score})
  IN SubSeq(sorted, 1, k) \o <<m>> \o SubSeq(sorted, k + 1, Len(sorted))

RECURSIVE SortByScore(_)
SortByScore(ms) ==
  IF ms = <<>> THEN <<>>
  ELSE InsertByScore(SortByScore(SubSeq(ms, 1, Len(ms) - 1)), ms[Len(ms)])

\* Array.prototype.map
MapSeq(F(_), xs) == [i \in DOMAIN xs |-> F(xs[i])]

\* ------------------------------------------------- findEnhancedMatches
\* the MatchScore findEnhancedMatches builds for one donor
EnhancedMatchScore(patient, donor) ==
  LET bloodCompat == calculateBloodCompatibility(patient.blood_type,
                                                 donor.blood_type)
      urgencyScore == calculateUrgencyScore(patient.urgency_level, patient.age,
                                            patient.organ_needed)
      distanceScore == calculateDistanceScoreByCityState(
                         HospitalLocation(patient.hospital_id),
                         HospitalLocation(donor.hospital_id))
      timeScore == calculateTimeScore(patient.days)
      medicalRiskScore == calculateMedicalRiskScore(patient, donor)
  IN [donor_id |-> donor.donor_id,
      blood_type |-> donor.blood_type,
      organs_available |-> donor.organs_to_donate,
      hospital_id |-> donor.hospital_id,
      match_score |-> RoundHundredths(35 * bloodCompat + 25 * urgencyScore
                                        + 15 * distanceScore + 10 * timeScore
                                        + 15 * medicalRiskScore),
      compatibility_score |-> bloodCompat,
      urgency_bonus |-> urgencyScore,
      distance_score |-> distanceScore,
      medical_risk_score |-> medicalRiskScore,
      time_score |-> timeScore,
      explanation |-> <<>>]

\* "... AND (p.status IS NULL OR p.status IN ('Waiting', 'In Progress', 'Matched'))"
ActivePatient(patient) ==
  patient.status \in {"Waiting", "In Progress", "Matched"}

\* findEnhancedMatches, for a patient its first query finds: the donors that
\* are active and available (an unset status is kept as 'Available') and
\* offer the needed organ, scored, those above 40, sorted, the first ten
findEnhancedMatches(patient, donorsAll) ==
  LET neededOrgan == toLowerCase(patient.organ_needed)
      Candidate(d) ==
        /\ d.is_active
        /\ d.status = "Available"
        /\ \E o \in d.organs_to_donate : normalize(o) = normalize(neededOrgan)
      Score(d) == EnhancedMatchScore(patient, d)
      Viable(m) == m.match_score > 40
      viable == SelectSeq(MapSeq(Score, SelectSeq(donorsAll, Candidate)), Viable)
  IN SubSeq(SortByScore(viable), 1, Min(10, Len(viable)))

\* a call of the exported function: it throws for a patient that is not active
FindEnhancedMatchesCall ==
  /\ matching.pc = "ready"
  /\ matching' =
       IF ActivePatient(matching.patient)
       THEN MatchingAnswer("findEnhancedMatches", 200,
                           findEnhancedMatches(matching.patient, matching.donors),
                           FALSE, "")
       ELSE MatchingAnswer("findEnhancedMatches", 500, <<>>, FALSE, "")
  /\ UNCHANGED <<tables, sessions, faults>>

\* ---------------------------------------------- POST /enhanced-matches
\* "... WHERE status = 'active' AND (paused_for_matching = FALSE OR ... IS NULL)"
ActivePolicies(rows) ==
  LET Active(row) == row.status = "active" /\ ~row.paused_for_matching
  IN SelectSeq(rows, Active)

\* a match recomputed with the weights of the route (the query does not
\* select criteria_weights, so they are the default ones)
RecomputeWithPolicy(m, policyTitle, policyCount) ==
  [m EXCEPT
     !.match_score =
       RoundHundredths(40 * m.compatibility_score + 30 * m.urgency_bonus
                         + 20 * m.distance_score
                         + 10 * (IF m.time_score = 0 THEN 100
                                 ELSE m.time_score)),
     !.explanation =
       Append(@, [policy |-> policyTitle, more |-> policyCount - 1])]

\* the loop over the policies, from row i on
RECURSIVE EnhancedPolicyLoop(_, _, _, _)
EnhancedPolicyLoop(rows, i, patientOrgan, acc) ==
  IF i > Len(rows) THEN acc
  ELSE
    LET row == rows[i]
        organMatch ==
          /\ patientOrgan # ""
          /\ Includes(row.title_words \cup row.content_words, patientOrgan)
        counted == IF organMatch
                   THEN [acc EXCEPT !.policyCount = @ + 1]
                   ELSE acc
        Recompute(m) == RecomputeWithPolicy(m, row.title, counted.policyCount)
        applied == IF organMatch /\ ~acc.policyApplied
                   THEN [counted EXCEPT
                           !.policyApplied = TRUE,
                           !.policyTitle = row.title,
                           !.enhancedMatches =
                             SortByScore(MapSeq(Recompute, @))]
                   ELSE counted
    IN EnhancedPolicyLoop(rows, i + 1, patientOrgan, applied)

\* what the handler has after its policy loop
EnhancedMatchesOut(patient, donorRows, policyRows) ==
  EnhancedPolicyLoop(ActivePolicies(policyRows), 1,
                     toLowerCase(patient.organ_needed),
                     [enhancedMatches |-> findEnhancedMatches(patient, donorRows),
                      policyApplied |-> FALSE, policyTitle |-> "",
                      policyCount |-> 0])

\* the handler, called by hospital h for the patient in matching
EnhancedMatches(h) ==
  LET patient == matching.patient
      out == EnhancedMatchesOut(patient, matching.donors, matching.policies)
  IN
  /\ matching.pc = "ready"
  /\ matching' =
       IF ~(patient.hospital_id = h /\ ActivePatient(patient))
       THEN MatchingAnswer("enhanced-matches", 404, <<>>, FALSE, "")
       ELSE MatchingAnswer("enhanced-matches", 200, out.enhancedMatches,
                           out.policyApplied, out.policyTitle)
  /\ UNCHANGED <<tables, sessions, faults>>

\* ------------------------------------------ AIMatchingService.findMatches
\* match_score of findMatches has two decimals (Math.round(x * 100) / 100):
\* it is kept here in hundredths, 100 being 10000.
\* the DonorMatch findMatches builds for one donor row
DonorMatch(criteria, donor) ==
  LET compatibilityScore == calculateCompatibilityScore(criteria.blood_type,
                                                        donor.blood_type)
      urgencyBonus == urgencyScores(criteria.urgency_level)
      distanceScore == AIMatchingService_calculateDistanceScore(
                         HospitalLocation(criteria.hospital_id),
                         HospitalLocation(donor.hospital_id))
      timeScore == AIMatchingService_calculateTimeScore(donor.days)
  IN [donor_id |-> donor.donor_id,
      blood_type |-> donor.blood_type,
      organs_available |-> donor.organs_to_donate,
      hospital_id |-> donor.hospital_id,
      city |-> HospitalLocation(donor.hospital_id).city,
      state |-> HospitalLocation(donor.hospital_id).state,
      match_score |-> 40 * compatibilityScore + 30 * urgencyBonus
                        + 20 * distanceScore + 10 * timeScore,
      distance_score |-> distanceScore,
      compatibility_score |-> compatibilityScore,
      urgency_bonus |-> urgencyBonus,
      policy_applied |-> FALSE,
      policy_name |-> "",
      explanation |-> <<>>]

\* "... WHERE p.status = 'voting' AND p.total_votes > 0 AND votes_for /
\* total_votes > 0.5 AND is_withdrawn is not true AND is_suspended is not true"
ApprovedPolicies(rows) ==
  LET Approved(row) ==
        /\ row.status = "voting"
        /\ row.total_votes > 0
        /\ 2 * row.votes_for > row.total_votes
        /\ ~row.is_withdrawn
        /\ ~row.is_suspended
  IN SelectSeq(rows, Approved)

\* the bonus added without Math.min(100, ...)
WithBonus_NoCap(match, policy, bonus) ==
  [match EXCEPT !.match_score = @ + 100 * bonus,
                !.policy_applied = TRUE,
                !.policy_name = policy.title,
                !.explanation = Append(@, [policy |-> policy.title,
                                           bonus |-> bonus])]

\* match.match_score = Math.min(100, match.match_score + bonus), the policy
\* named on the match and in its explanation
WithBonus(match, policy, bonus) ==
  [match EXCEPT !.match_score = Min(10000, @ + 100 * bonus),
                !.policy_applied = TRUE,
                !.policy_name = policy.title,
                !.explanation = Append(@, [policy |-> policy.title,
                                           bonus |-> bonus])]

\* the kidney transport/priority rule of one policy on one match
KidneyRule(match, policy, patient) ==
  LET patientLocation == HospitalLocation(patient.hospital_id)
      distanceBonus ==
        IF /\ match.city # "" /\ patientLocation.city # ""
           /\ toLowerCase(match.city) = toLowerCase(patientLocation.city)
        THEN 15
        ELSE IF /\ match.state # "" /\ patientLocation.state # ""
                /\ toLowerCase(match.state) = toLowerCase(patientLocation.state)
        THEN 8
        ELSE 0
  IN IF distanceBonus > 0
     THEN WithBonus(match, policy, distanceBonus)
     ELSE [match EXCEPT !.explanation = Append(@, [policy |-> policy.title,
                                                   bonus |-> 0])]

\* the kidney rule of the loop body applies to this policy and patient
KidneyPolicy(policy, patient) ==
  /\ \/ Includes(policy.title_words, "kidney")
          /\ Includes(policy.title_words, "transport")
     \/ Includes(policy.title_words, "kidney")
          /\ Includes(policy.title_words, "priority")
     \/ Includes(policy.content_words, "geographically closer")
  /\ toLowerCase(patient.organ_needed) = "kidney"

\* the loop body throws before it changes a match: policy.title.toLowerCase()
\* on a title that is null, or the rejected hospitals query of the kidney rule
PolicyThrows(policy, patient, queryFails) ==
  \/ policy.title = NullText
  \/ KidneyPolicy(policy, patient) /\ queryFails

\* the three rules of one policy, in the order of the loop body
ApplyPolicy(matches, policy, patient) ==
  LET kidney == KidneyPolicy(policy, patient)
      pediatric ==
        Includes(policy.title_words, "pediatric") /\ patient.age < 18
      urgent ==
        /\ \/ Includes(policy.title_words, "urgent")
           \/ Includes(policy.title_words, "emergency")
           \/ Includes(policy.title_words, "critical")
        /\ patient.urgency_level = "Critical"
      Kidney(m) == KidneyRule(m, policy, patient)
      Pediatric(m) == WithBonus(m, policy, 5)
      Urgent(m) == WithBonus(m, policy, 8)
      afterKidney == IF kidney THEN MapSeq(Kidney, matches) ELSE matches
      afterPediatric == IF pediatric THEN MapSeq(Pediatric, afterKidney)
                        ELSE afterKidney
  IN IF urgent THEN MapSeq(Urgent, afterPediatric) ELSE afterPediatric

\* the loop over the approved policies from the i-th on: the matches as the
\* loop leaves them, and whether it left by a throw
RECURSIVE ApplyPoliciesFrom(_, _, _, _, _)
ApplyPoliciesFrom(matches, policies, i, patient, failAt) ==
  IF i > Len(policies) THEN [matches |-> matches, threw |-> FALSE]
  ELSE IF PolicyThrows(policies[i], patient, failAt = i)
  THEN [matches |-> matches, threw |-> TRUE]
  ELSE ApplyPoliciesFrom(ApplyPolicy(matches, policies[i], patient),
                         policies, i + 1, patient, failAt)

\* AIMatchingService.applyBlockchainPolicies: the matches are changed in
\* place, so the catch block returns them as the loop left them, unsorted
applyBlockchainPolicies(matches, patient, policyRows, failAt) ==
  LET out == ApplyPoliciesFrom(matches, ApprovedPolicies(policyRows), 1,
                               patient, failAt)
  IN IF out.threw THEN out.matches ELSE SortByScore(out.matches)

\* AIMatchingService.findMatches for the criteria of a caller; patient is the
\* row of criteria.patient_id
findMatches(criteria, patient, donorRows, policyRows, failAt) ==
  LET compatibleBloodTypes ==
        IF criteria.blood_type \in DOMAIN bloodCompatibility
        THEN bloodCompatibility[criteria.blood_type]
        ELSE {}
      Candidate(d) ==
        /\ d.blood_type \in compatibleBloodTypes
        /\ d.is_active
        /\ criteria.organ_type \in d.organs_to_donate
        /\ d.hospital_id # criteria.hospital_id
        /\ d.status = "Available"
      Match(d) == DonorMatch(criteria, d)
      matches == SortByScore(MapSeq(Match, SelectSeq(donorRows, Candidate)))
  IN IF compatibleBloodTypes = {} THEN <<>>
     ELSE applyBlockchainPolicies(matches, patient, policyRows, failAt)

\* POST /find-matches, called by hospital h with the patient's own organ,
\* blood type and urgency in the body
FindMatches(h) ==
  LET patient == matching.patient
      criteria == [patient_id |-> patient.patient_id,
                   organ_type |-> patient.organ_needed,
                   blood_type |-> patient.blood_type,
                   urgency_level |-> patient.urgency_level,
                   hospital_id |-> h]
      found == findMatches(criteria, patient, matching.donors,
                           matching.policies, matching.hospital_query_fails)
  IN
  /\ matching.pc = "ready"
  /\ matching' =
       IF patient.hospital_id # h
       THEN MatchingAnswer("find-matches", 404, <<>>, FALSE, "")
       ELSE MatchingAnswer("find-matches", 200, found,
                           \E i \in DOMAIN found : found[i].policy_applied, "")
  /\ UNCHANGED <<tables, sessions, faults>>

\* ------------------------------------------------- matching: specification
InitMatch ==
  /\ patients = [p \in PatientIds |-> NewPatient(PatientHospital(p))]
  /\ donors = [d \in DonorIds |-> NewDonor(DonorHospital(d))]
  /\ organ_requests = <<>>
  /\ notifications = <<>>
  /\ sessions = [s \in Sessions |-> IdleSession]
  /\ faults = 0
  /\ \E patient \in PatientRows, donorRows \in DonorTables,
        policyRows \in PolicyTables :
       matching = MatchingInput(patient, donorRows, policyRows)

NextMatch ==
  \/ \E h \in Hospitals : FindMatches(h)
  \/ FindEnhancedMatchesCall
  \/ \E h \in Hospitals : EnhancedMatches(h)

SpecMatch == InitMatch /\ [][NextMatch]_vars

\* ------------------------------------------- policies: withdraw and pause
Organizations == 1..NumOrganizations

\* votes_for / total_votes > 0.5 with total_votes > 0
MajorityYes(policy) ==
  policy.total_votes > 0 /\ 2 * policy.votes_for > policy.total_votes

\* "DELETE FROM notifications WHERE related_id = $1 AND type =
\* 'policy_proposal' AND organization_id != $2"
DeleteProposalNotifications(rows, policy_id, orgId) ==
  LET Kept(n) == ~(/\ "organization_id" \in DOMAIN n
                   /\ n.related_id = policy_id
                   /\ n.type = "policy_proposal"
                   /\ n.organization_id # orgId)
  IN SelectSeq(rows, Kept)

\* the 'policy_suspended' notifications, one for every other organization
RECURSIVE SuspendedNotifications(_, _, _)
SuspendedNotifications(orgs, policy_id, orgId) ==
  IF orgs = {} THEN <<>>
  ELSE LET org == CHOOSE o \in orgs : \A x \in orgs : o <= x
       IN (IF org = orgId THEN <<>>
           ELSE <<[organization_id |-> org, type |-> "policy_suspended",
                   related_id |-> policy_id, is_read |-> FALSE]>>)
          \o SuspendedNotifications(orgs \ {org}, policy_id, orgId)

\* POST /policies/:policy_id/withdraw by organization orgId; the policy_id
\* of a row is its position in the table
WithdrawPolicy(policy_id, orgId, code) ==
  /\ matching.pc = "ready"
  /\ IF policy_id \notin DOMAIN matching.policies
     THEN /\ code = 404
          /\ UNCHANGED <<matching, notifications>>
     ELSE LET policy == matching.policies[policy_id] IN
          IF policy.proposer_org_id # orgId
          THEN /\ code = 403
               /\ UNCHANGED <<matching, notifications>>
          ELSE IF \/ policy.is_withdrawn
                  \/ policy.is_suspended
                  \/ policy.hours_since_creation > 24
          THEN /\ code = 400
               /\ UNCHANGED <<matching, notifications>>
          ELSE IF MajorityYes(policy)
          THEN /\ code = 200
               /\ matching' = [matching EXCEPT
                                 !.policies[policy_id].is_suspended = TRUE]
               /\ notifications' =
                    notifications
                      \o SuspendedNotifications(Organizations, policy_id, orgId)
          ELSE /\ code = 200
               /\ matching' = [matching EXCEPT
                                 !.policies[policy_id].is_withdrawn = TRUE,
                                 !.policies[policy_id].status = "withdrawn"]
               /\ notifications' =
                    DeleteProposalNotifications(notifications, policy_id, orgId)
  /\ UNCHANGED <<patients, donors, organ_requests, sessions, faults>>

\* POST /policies/:policyId/toggle-pause by organization orgId
TogglePause(policyId, orgId, paused, code) ==
  /\ matching.pc = "ready"
  /\ IF \/ policyId \notin DOMAIN matching.policies
        \/ matching.policies[policyId].proposer_org_id # orgId
     THEN /\ code = 404
          /\ UNCHANGED matching
     ELSE IF matching.policies[policyId].status # "active"
     THEN /\ code = 400
          /\ UNCHANGED matching
     ELSE /\ code = 200
          /\ matching' = [matching EXCEPT
                            !.policies[policyId].paused_for_matching = paused]
  /\ UNCHANGED <<tables, sessions, faults>>

\* ---------------------------------------- matching under several policies
\* the rows of the policies table the matching calls are run on
PolicyPool ==
  {PolicyRow("Kidney Transport Priority",
             {"kidney", "transport", "priority"}, "voting"),
   [PolicyRow("Kidney Priority Review",
              {"kidney", "priority", "review"}, "voting")
      EXCEPT !.votes_for = 1],
   PolicyRow("Critical Case Priority",
             {"critical", "case", "priority"}, "voting"),
   PolicyRow(NullText, {}, "voting"),
   PolicyRow("Kidney Allocation", {"kidney", "allocation"}, "active"),
   PolicyRow("Kidney Transport Rules",
             {"kidney", "transport", "rules"}, "active"),
   [PolicyRow("Heart Allocation", {"heart", "allocation"}, "active")
      EXCEPT !.hours_since_creation = 48]}

\* the policies tables of at most n rows, in the order created_at DESC
RECURSIVE PolicySequences(_)
PolicySequences(n) ==
  IF n = 0 THEN {<<>>}
  ELSE LET shorter == PolicySequences(n - 1)
       IN shorter \cup {Append(ps, row) : ps \in shorter, row \in PolicyPool}

\* a kidney patient of hospital 1
RankedPatientRows ==
  [patient_id : {1}, hospital_id : {1}, status : {"Waiting"},
   blood_type : {"O+"}, organ_needed : {"Kidney"},
   urgency_level : {"Low", "Critical"}, age : {40}, gender : {"Male"},
   days : {400}]

\* kidney donors of the other hospitals
RankedDonorRows(id) ==
  [donor_id : {id}, hospital_id : {2, 3, 4},
   status : {"Available"}, is_active : {TRUE},
   blood_type : {"O+", "A+"},
   organs_to_donate : {{"Kidney"}},
   age : {40}, gender : {"Male"}, days : {3, 200}]

InitPolicy ==
  /\ patients = [p \in PatientIds |-> NewPatient(PatientHospital(p))]
  /\ donors = [d \in DonorIds |-> NewDonor(DonorHospital(d))]
  /\ organ_requests = <<>>
  /\ notifications = <<>>
  /\ sessions = [s \in Sessions |-> IdleSession]
  /\ faults = 0
  /\ \E patient \in RankedPatientRows,
        d1 \in RankedDonorRows(1), d2 \in RankedDonorRows(2),
        policyRows \in PolicySequences(MaxPolicies),
        failAt \in 0..MaxPolicies :
       matching = [MatchingInput(patient, <<d1, d2>>, policyRows)
                     EXCEPT !.hospital_query_fails = failAt]

\* the matching calls on two candidates and up to MaxPolicies policies
SpecPolicy == InitPolicy /\ [][NextMatch]_vars

\* ------------------------------------- matching while policies are governed
\* two O+ kidney donors in the patient's city or state
GovernedDonorRows(id) ==
  [donor_id : {id}, hospital_id : {2, 3},
   status : {"Available"}, is_active : {TRUE},
   blood_type : {"O+"},
   organs_to_donate : {{"Kidney"}},
   age : {40}, gender : {"Male"}, days : {3, 200}]

InitGovern ==
  /\ patients = [p \in PatientIds |-> NewPatient(PatientHospital(p))]
  /\ donors = [d \in DonorIds |-> NewDonor(DonorHospital(d))]
  /\ organ_requests = <<>>
  /\ notifications = <<>>
  /\ sessions = [s \in Sessions |-> IdleSession]
  /\ faults = 0
  /\ \E patient \in RankedPatientRows,
        d1 \in GovernedDonorRows(1), d2 \in GovernedDonorRows(2),
        policyRows \in PolicySequences(MaxPolicies) :
       matching = MatchingInput(patient, <<d1, d2>>, policyRows)

NextGovern ==
  \/ \E h \in Hospitals : FindMatches(h)
  \/ FindEnhancedMatchesCall
  \/ \E h \in Hospitals : EnhancedMatches(h)
  \/ \E policy_id \in 1..MaxPolicies, orgId \in Organizations,
        code \in {200, 400, 403, 404} :
       WithdrawPolicy(policy_id, orgId, code)
  \/ \E policyId \in 1..MaxPolicies, orgId \in Organizations,
        paused \in BOOLEAN, code \in {200, 400, 404} :
       TogglePause(policyId, orgId, paused, code)

SpecGovern == InitGovern /\ [][NextGovern]_vars

\* ----------------------------------------------------------------- claims

\* some response route answers `code` to hospital h's decision st on request rid
RespondAnswers(h, rid, st, code) ==
  \/ RespondToRequest(h, rid, st, code)
  \/ \E r \in {"accept", "reject"} :
       LegacyStatus(r) = st /\ LegacyRespond(h, rid, r, code)

\* C1: a respond call on a request that is no longer pending (the second of
\* two sequential calls) is refused, and the request, recipient, donor and
\* notification records stay as the first call left them.
C1_SecondRespondRefused ==
  [][\A h \in Hospitals, rid \in RequestIds, st \in Decisions, code \in Codes :
       (/\ rid \in DOMAIN organ_requests
        /\ organ_requests[rid].status # "pending"
        /\ RespondAnswers(h, rid, st, code))
         => (code # 200 /\ UNCHANGED tables)]_vars

\* C3: a create whose origin and target hospital coincide answers 200 with
\* the request accepted, the recipient Matched with its matched donor and
\* hospital set, and the donor Matched with its matched recipient set.
C3_InternalCreateMatchesBoth ==
  [][\A h \in Hospitals, p \in PatientIds, d \in DonorIds :
       SendRequest(h, p, d, h, 200) =>
         /\ organ_requests'[Len(organ_requests) + 1].status = "accepted"
         /\ patients'[p].status = "Matched"
         /\ patients'[p].matched_donor_id = d
         /\ patients'[p].matched_hospital_id = h
         /\ donors'[d].status = "Matched"
         /\ donors'[d].matched_patient_id = p]_vars

\* C4: a create whose origin and target hospital differ leaves the new
\* request pending, the recipient In Progress with matched donor and hospital
\* set to the requested ones, and every donor row as it was.
C4_ExternalCreatePending ==
  [][\A h \in Hospitals, p \in PatientIds, d \in DonorIds, to \in Hospitals :
       (h # to /\ SendRequest(h, p, d, to, 200)) =>
         /\ Len(organ_requests') = Len(organ_requests) + 1
         /\ organ_requests'[Len(organ_requests')].status = "pending"
         /\ patients'[p].status = "In Progress"
         /\ patients'[p].matched_donor_id = d
         /\ patients'[p].matched_hospital_id = to
         /\ donors' = donors]_vars

\* C4's case: an external request is pending, its recipient In Progress and
\* pointing at the requested donor and hospital, the donor still Available.
C4_Witness ==
  \E rid \in DOMAIN organ_requests :
    LET r == organ_requests[rid] IN
    /\ r.from_hospital_id # r.to_hospital_id
    /\ r.status = "pending"
    /\ patients[r.patient_id].status = "In Progress"
    /\ patients[r.patient_id].matched_donor_id = r.donor_id
    /\ patients[r.patient_id].matched_hospital_id = r.to_hospital_id
    /\ donors[r.donor_id].status = "Available"

\* C5: after the target hospital accepts a pending request, the request is
\* accepted, recipient and donor are Matched, and they point at each other.
C5_AcceptReciprocal ==
  [][\A h \in Hospitals, rid \in RequestIds :
       (/\ rid \in DOMAIN organ_requests
        /\ organ_requests[rid].status = "pending"
        /\ RespondToRequest(h, rid, "accepted", 200)) =>
         LET r == organ_requests[rid] IN
         /\ organ_requests'[rid].status = "accepted"
         /\ patients'[r.patient_id].status = "Matched"
         /\ donors'[r.donor_id].status = "Matched"
         /\ patients'[r.patient_id].matched_donor_id = r.donor_id
         /\ donors'[r.donor_id].matched_patient_id = r.patient_id]_vars

C8_TerminalStatuses ==
  [][\A rid \in DOMAIN organ_requests :
       organ_requests[rid].status \in {"rejected", "completed"}
         => organ_requests'[rid].status = organ_requests[rid].status]_vars

\* C9: a donor's matched recipient is set exactly when the donor is Matched.
C9_DonorReferenceIffMatched ==
  \A d \in DonorIds :
    donors[d].exists =>
      (donors[d].matched_patient_id # NULL <=> donors[d].status = "Matched")

\* C10: a recipient's matched donor is set only while the recipient is
\* In Progress or Matched.
C10_RecipientReferenceOnlyWhileActive ==
  \A p \in PatientIds :
    (patients[p].exists /\ patients[p].matched_donor_id # NULL)
      => patients[p].status \in {"In Progress", "Matched"}

\* two finished respond calls that both read the same request while it was
\* still pending
Raced(s1, s2) ==
  /\ s1 # s2
  /\ \A s \in {s1, s2} :
       /\ sessions[s].pc = "done"
       /\ sessions[s].op = "respond"
       /\ sessions[s].a.seen = "pending"
  /\ sessions[s1].a.request_id = sessions[s2].a.request_id

\* the request carries one decision and the recipient the other
Mixed(rid) ==
  LET r == organ_requests[rid] IN
  \/ r.status = "accepted" /\ patients[r.patient_id].status # "Matched"
  \/ r.status = "rejected" /\ patients[r.patient_id].status # "Waiting"

\* C2: of two respond calls racing on one pending request exactly one takes
\* effect, the other is refused, and the request and its recipient never end
\* up carrying different decisions.
C2_RaceHasOneWinner ==
  \A s1, s2 \in Sessions :
    Raced(s1, s2) =>
      /\ (sessions[s1].code = 200) # (sessions[s2].code = 200)
      /\ ~Mixed(sessions[s1].a.request_id)

\* C7: a create, respond or completeTransplant call that fails at one of its
\* statements leaves the request, recipient, donor and notification tables as
\* they were before the call.
C7_AllOrNothing ==
  [][SomeHandlerThrows => UNCHANGED tables]_vars

\* C11: a completeTransplant call (either route) for a recipient whose status
\* is not Matched answers an error and leaves every table as it was.
C11_CompleteNeedsMatched ==
  [][\A p \in PatientIds :
       patients[p].status # "Matched" =>
         \A h \in Hospitals, d \in DonorIds :
           /\ ~CompleteTransplant(h, p, d, 200)
           /\ ~PatchCompleteTransplant(h, p, 200)
           /\ \/ UNCHANGED tables
              \/ \A code \in Codes :
                   /\ ~CompleteTransplant(h, p, d, code)
                   /\ ~PatchCompleteTransplant(h, p, code)]_vars

\* C11's case: the owning hospital's recipient is requested but not yet
\* Matched (its request is pending), and both completion routes answer it
\* with an error.
C11_Witness ==
  \E rid \in DOMAIN organ_requests :
    LET r == organ_requests[rid] IN
    /\ r.status = "pending"
    /\ patients[r.patient_id].status = "In Progress"
    /\ ENABLED CompleteTransplant(r.from_hospital_id, r.patient_id,
                                  r.donor_id, 404)
    /\ ENABLED PatchCompleteTransplant(r.from_hospital_id, r.patient_id, 400)

\* C12: whichever route completed the transplant, a Completed recipient's
\* donor is no longer Matched and no request of that recipient and donor is
\* still accepted.
C12_CompletedEverywhere ==
  \A rid \in DOMAIN organ_requests :
    LET r == organ_requests[rid] IN
    (/\ patients[r.patient_id].status = "Completed"
     /\ patients[r.patient_id].matched_donor_id = r.donor_id)
      => /\ r.status # "accepted"
         /\ donors[r.donor_id].status # "Matched"

\* the recipient or the donor a call refers to has been deleted
Vanished(p, d) == ~patients[p].exists \/ ~donors[d].exists

\* C13: a create, respond or completeTransplant call that refers to a deleted
\* recipient or donor is answered with an error and changes no request,
\* recipient, donor or notification record.
C13_TransitionsRecheckExistence ==
  [][/\ \A p \in PatientIds, d \in DonorIds :
          Vanished(p, d) =>
            \A h \in Hospitals, code \in Codes :
              (\/ \E to \in Hospitals : SendRequest(h, p, d, to, code)
               \/ CompleteTransplant(h, p, d, code))
                => (code # 200 /\ UNCHANGED tables)
     /\ \A rid \in DOMAIN organ_requests :
          Vanished(organ_requests[rid].patient_id, organ_requests[rid].donor_id) =>
            \A h \in Hospitals, st \in Decisions, code \in Codes :
              RespondAnswers(h, rid, st, code)
                => (code # 200 /\ UNCHANGED tables)]_vars

\* C14: a respond call by a hospital other than the request's target hospital
\* is answered with an error and changes no request, recipient, donor or
\* notification record.
C14_OnlyTargetResponds ==
  [][\A rid \in DOMAIN organ_requests, h \in Hospitals :
       h # organ_requests[rid].to_hospital_id =>
         \A st \in Decisions :
           /\ ~RespondAnswers(h, rid, st, 200)
           /\ \/ UNCHANGED tables
              \/ \A code \in Codes : ~RespondAnswers(h, rid, st, code)]_vars

\* C14's case: a request is pending with recipient and donor in place, and a
\* hospital that is not its target gets 404 from both response routes.
C14_Witness ==
  \E rid \in DOMAIN organ_requests, h \in Hospitals :
    LET r == organ_requests[rid] IN
    /\ h # r.to_hospital_id
    /\ r.status = "pending"
    /\ patients[r.patient_id].exists
    /\ donors[r.donor_id].exists
    /\ ENABLED RespondToRequest(h, rid, "accepted", 404)
    /\ ENABLED LegacyRespond(h, rid, "accept", 404)

\* a donor the target hospital can offer: it exists, is Available and is
\* owned by that hospital
LiveCandidate(d, to) ==
  /\ donors[d].exists
  /\ donors[d].status = "Available"
  /\ donors[d].hospital_id = to

\* C15: a create whose recipient is not the origin hospital's, or whose donor
\* is not a live candidate of the target hospital, is answered with an error:
\* no request is created and recipient, donor and notification records stay
\* as they were.
C15_CreateValidatesBoth ==
  [][\A h \in Hospitals, p \in PatientIds, d \in DonorIds, to \in Hospitals :
       (~PatientOfHospital(DB, p, h) \/ ~LiveCandidate(d, to)) =>
         /\ ~SendRequest(h, p, d, to, 200)
         /\ \/ UNCHANGED tables
            \/ \A code \in Codes : ~SendRequest(h, p, d, to, code)]_vars

\* the notification a call appended, the earlier ones being as `before`
Emitted(before, h, type, rid) ==
  /\ Len(notifications') = Len(notifications) + 1
  /\ SubSeq(notifications', 1, Len(notifications)) = before
  /\ notifications'[Len(notifications')].hospital_id = h
  /\ notifications'[Len(notifications')].type = type
  /\ notifications'[Len(notifications')].related_id = rid

\* C16: a successful create appends exactly one notification for the new
\* request, to the origin hospital itself when internal and to the target
\* hospital when external, and changes no other; a successful respond appends
\* exactly one response notification to the origin hospital and marks the
\* responding hospital's earlier notifications of that request as read.
C16_NotificationsFollowTransitions ==
  [][/\ \A h \in Hospitals, p \in PatientIds, d \in DonorIds, to \in Hospitals :
          SendRequest(h, p, d, to, 200) =>
            /\ Emitted(notifications, IF h = to THEN h ELSE to,
                       IF h = to THEN "internal_match" ELSE "organ_request",
                       Len(organ_requests'))
            /\ ~notifications'[Len(notifications')].is_read
     /\ \A h \in Hospitals, rid \in RequestIds, st \in Decisions :
          RespondAnswers(h, rid, st, 200) =>
            /\ Emitted(SubSeq(notifications', 1, Len(notifications)),
                       organ_requests[rid].from_hospital_id,
                       "request_response", rid)
            /\ \A i \in DOMAIN notifications :
                 /\ notifications'[i].is_read =
                      (\/ notifications[i].is_read
                       \/ /\ notifications[i].related_id = rid
                          /\ notifications[i].hospital_id = h)
                 /\ [notifications'[i] EXCEPT !.is_read = FALSE]
                      = [notifications[i] EXCEPT !.is_read = FALSE]]_vars

\* C16's case: the target hospital's notification of an external request has
\* been marked read by its response, whose own notification waits unread at
\* the origin hospital.
C16_Witness ==
  \E i, j \in DOMAIN notifications :
    /\ i < j
    /\ notifications[i].type = "organ_request"
    /\ notifications[i].is_read
    /\ notifications[j].type = "request_response"
    /\ ~notifications[j].is_read
    /\ notifications[j].related_id = notifications[i].related_id
    /\ notifications[i].hospital_id
         = organ_requests[notifications[i].related_id].to_hospital_id
    /\ notifications[j].hospital_id
         = organ_requests[notifications[i].related_id].from_hospital_id

\* the ABO antigens and the Rh factor of a blood type
Antigens(t) ==
  (IF t \in {"A-", "A+", "AB-", "AB+"} THEN {"A"} ELSE {})
    \cup (IF t \in {"B-", "B+", "AB-", "AB+"} THEN {"B"} ELSE {})
    \cup (IF t \in {"O+", "A+", "B+", "AB+"} THEN {"Rh"} ELSE {})

\* ABO/Rh rule: the donor carries no antigen the recipient lacks
ValidDonorFor(donorType, recipientType) ==
  Antigens(donorType) \subseteq Antigens(recipientType)

\* the scores computed so far for the pair in matching
BloodScores ==
  {matching.bloodCompatibility[i] : i \in DOMAIN matching.bloodCompatibility}
    \cup {matching.compatibilityScore[i] :
            i \in DOMAIN matching.compatibilityScore}

\* C18: when the donor's type is not a valid donor type for the recipient's,
\* each blood scorer gives the pair the score 0.
C18_IncompatibleScoresZero ==
  (matching.pc = "blood"
     /\ ~ValidDonorFor(matching.donorBlood, matching.patientBlood))
    => BloodScores \subseteq {0}

\* C19: each blood scorer gives 100 to identical types, and a non-zero score
\* to every pair whose donor is O- and to every pair whose recipient is AB+.
C19_IdenticalAndUniversal ==
  matching.pc = "blood" =>
    /\ matching.patientBlood = matching.donorBlood
         => BloodScores \subseteq {100}
    /\ (matching.donorBlood = "O-" \/ matching.patientBlood = "AB+")
         => 0 \notin BloodScores

\* C19's case: both scorers have scored an O- donor for a recipient of the
\* same type: the identical pair and the universal donor at once.
C19_Witness ==
  /\ matching.pc = "blood"
  /\ matching.donorBlood = "O-"
  /\ matching.patientBlood = "O-"
  /\ matching.bloodCompatibility = <<100>>
  /\ matching.compatibilityScore = <<100>>

\* the donor row behind a returned match
DonorOf(m) ==
  CHOOSE d \in {matching.donors[i] : i \in DOMAIN matching.donors} :
    d.donor_id = m.donor_id

\* a matching call has answered with a list of candidates
Answered200(ops) ==
  matching.pc = "done" /\ matching.op \in ops /\ matching.code = 200

\* C17: every donor in the list returned by findMatches or by
\* findEnhancedMatches is active, Available, offers the recipient's organ
\* (singular and plural taken as equal) and has a blood type that is a valid
\* donor type for the recipient's.
C17_OnlyEligibleCandidates ==
  Answered200({"find-matches", "findEnhancedMatches", "enhanced-matches"}) =>
    \A i \in DOMAIN matching.matches :
      LET d == DonorOf(matching.matches[i]) IN
      /\ d.is_active
      /\ d.status = "Available"
      /\ \E o \in d.organs_to_donate :
           normalize(o) = normalize(matching.patient.organ_needed)
      /\ ValidDonorFor(d.blood_type, matching.patient.blood_type)

\* C20: every candidate in a list returned by findEnhancedMatches, also after
\* the policy adjustment of the enhanced-matches operation, has a final score
\* above 40.
C20_ReturnedAboveThreshold ==
  Answered200({"findEnhancedMatches", "enhanced-matches"}) =>
    \A i \in DOMAIN matching.matches : matching.matches[i].match_score > 40

\* C21: every match score returned to a caller lies in [0, 100]: the weighted
\* sum of findMatches (kept in hundredths) and of findEnhancedMatches, the
\* score the enhanced-matches route recomputes under a policy, and the score
\* after any number of policy bonuses.
C21_ScoreInRange ==
  Answered200({"find-matches", "findEnhancedMatches", "enhanced-matches"}) =>
    \A i \in DOMAIN matching.matches :
      LET score == matching.matches[i].match_score IN
      IF matching.op = "find-matches"
      THEN 0 <= score /\ score <= 10000
      ELSE 0 <= score /\ score <= 100

\* two bonuses were added to a match and the second one was cut at 100
C21_Witness ==
  /\ Answered200({"find-matches"})
  /\ \E i \in DOMAIN matching.matches :
       LET m == matching.matches[i]
           Positive(e) == e.bonus > 0
       IN /\ Len(SelectSeq(m.explanation, Positive)) = 2
          /\ m.match_score = 10000
          /\ DonorMatch([blood_type |-> matching.patient.blood_type,
                         urgency_level |-> matching.patient.urgency_level,
                         hospital_id |-> matching.patient.hospital_id],
                        DonorOf(m)).match_score > 7700

\* C22: the list returned after the policy adjustments is sorted by final
\* score, highest first, also when a policy raises an error partway through
\* the pass.
C22_SortedAfterPolicies ==
  Answered200({"find-matches", "enhanced-matches"}) =>
    \A i, j \in DOMAIN matching.matches :
      i < j => matching.matches[i].match_score >= matching.matches[j].match_score

\* the criteria of the find-matches call that answered 200
AnsweredCriteria ==
  [patient_id |-> matching.patient.patient_id,
   organ_type |-> matching.patient.organ_needed,
   blood_type |-> matching.patient.blood_type,
   urgency_level |-> matching.patient.urgency_level,
   hospital_id |-> matching.patient.hospital_id]

\* the policies table without its malformed rows
WellFormed(rows) ==
  LET HasTitle(row) == row.title # NullText
  IN SelectSeq(rows, HasTitle)

\* C23: a malformed policy (one without a title) is skipped and nothing else
\* changes: when no query fails, the list a matching call of the patient's
\* hospital answers is the one it answers when the malformed rows are not
\* in the table.
C23_MalformedPolicyIsolated ==
  /\ Answered200({"find-matches", "enhanced-matches"})
  /\ matching.hospital_query_fails = 0
  =>
  /\ matching.op = "find-matches" =>
       matching.matches =
         findMatches(AnsweredCriteria, matching.patient, matching.donors,
                     WellFormed(matching.policies), 0)
  /\ matching.op = "enhanced-matches" =>
       matching.matches =
         EnhancedMatchesOut(matching.patient, matching.donors,
                            WellFormed(matching.policies)).enhancedMatches

\* a policy that may influence ranking: not withdrawn, not suspended, not
\* paused for matching, and past the majority threshold
Eligible(row) ==
  /\ ~row.is_withdrawn
  /\ ~row.is_suspended
  /\ ~row.paused_for_matching
  /\ MajorityYes(row)

EligibleOnly(rows) == SelectSeq(rows, Eligible)

\* C24: a policy that is withdrawn, suspended, paused for matching or short
\* of the majority never changes a candidate's score, order or rationale:
\* the answer of find-matches and of enhanced-matches is the answer they give
\* when those policies are not in the table.
C24_OnlyEligiblePoliciesCount ==
  Answered200({"find-matches", "enhanced-matches"}) =>
    /\ matching.op = "find-matches" =>
         matching.matches =
           findMatches(AnsweredCriteria, matching.patient, matching.donors,
                       EligibleOnly(matching.policies),
                       matching.hospital_query_fails)
    /\ matching.op = "enhanced-matches" =>
         LET out == EnhancedMatchesOut(matching.patient, matching.donors,
                                       EligibleOnly(matching.policies))
         IN /\ matching.matches = out.enhancedMatches
            /\ matching.policy_applied = out.policyApplied
            /\ matching.policy_title = out.policyTitle

\* the score findMatches gives a returned match before the policies
Unadjusted(m) == DonorMatch(AnsweredCriteria, DonorOf(m)).match_score

\* the match is of a donor in the patient's city
SameCity(m) == m.city = HospitalLocation(matching.patient.hospital_id).city

\* find-matches answered after exactly one approved policy, a kidney policy,
\* gave its bonuses
OneKidneyPolicyApplied ==
  LET approved == ApprovedPolicies(matching.policies) IN
  /\ Answered200({"find-matches"})
  /\ Len(approved) = 1
  /\ KidneyPolicy(approved[1], matching.patient)
  /\ ~PolicyThrows(approved[1], matching.patient,
                   matching.hospital_query_fails = 1)

\* C25: with one eligible policy that grants +15 to same-city kidney donors,
\* a same-city candidate that trails a farther candidate by less than 15
\* before the policy is ranked before it after the policy, and one that
\* trails by more than 15 is not.
C25_ScenarioC ==
  OneKidneyPolicyApplied =>
    \A i, j \in DOMAIN matching.matches :
      LET near == matching.matches[i]
          far == matching.matches[j]
          gap == Unadjusted(far) - Unadjusted(near)
      IN SameCity(near) /\ ~SameCity(far) =>
           /\ (0 < gap /\ gap < 1500) => i < j
           /\ gap > 1500 => j < i

\* the active policies whose text names the patient's organ, newest first
OrganPolicies ==
  LET Names(row) == Includes(row.title_words \cup row.content_words,
                             toLowerCase(matching.patient.organ_needed))
  IN SelectSeq(ActivePolicies(matching.policies), Names)

\* the donors of a list with their scores, in the order of the list
Ranking(ms) == [i \in DOMAIN ms |-> <<ms[i].donor_id, ms[i].match_score>>]

\* C26: the weight override is first-match-wins.  When enhanced-matches finds
\* policies that name the patient's organ, the scores and the order are
\* those under the first of them alone and it is the policy reported, and
\* the rationale of every candidate names it and counts the later ones.
C26_FirstMatchWins ==
  Answered200({"enhanced-matches"}) /\ OrganPolicies # <<>> =>
    /\ matching.policy_applied
    /\ matching.policy_title = OrganPolicies[1].title
    /\ Ranking(matching.matches) =
         Ranking(EnhancedMatchesOut(matching.patient, matching.donors,
                                    <<OrganPolicies[1]>>).enhancedMatches)
    /\ \A i \in DOMAIN matching.matches :
         LET note == matching.matches[i].explanation IN
         /\ Len(note) = 1
         /\ note[1].policy = OrganPolicies[1].title
         /\ note[1].more = Len(OrganPolicies) - 1

\* a create, or an accept through either response route, has answered 200
CreateOrAccept ==
  \/ \E h \in Hospitals, p \in PatientIds, d \in DonorIds, to \in Hospitals :
       SendRequest(h, p, d, to, 200)
  \/ \E h \in Hospitals, rid \in RequestIds :
       RespondAnswers(h, rid, "accepted", 200)

\* C27: a donor is assigned to at most one recipient at a time.  No two
\* accepted requests name the same donor with different recipients, and no
\* create or accept changes the matched recipient of a donor that is Matched
\* or Donated.
C27_OneRecipientPerDonor ==
  /\ [](\A r1, r2 \in DOMAIN organ_requests :
          (/\ organ_requests[r1].status = "accepted"
           /\ organ_requests[r2].status = "accepted"
           /\ organ_requests[r1].donor_id = organ_requests[r2].donor_id)
            => organ_requests[r1].patient_id = organ_requests[r2].patient_id)
  /\ [][CreateOrAccept =>
          \A d \in DonorIds :
            donors[d].status \in {"Matched", "Donated"} =>
              donors'[d].matched_patient_id = donors[d].matched_patient_id]_vars

\* C28: whenever a request is accepted and its recipient and donor exist,
\* the recipient is Matched to the request's donor and the donor is Matched
\* to the request's recipient.
C28_AcceptedMeansMatchedBoth ==
  \A rid \in DOMAIN organ_requests :
    LET r == organ_requests[rid] IN
    (/\ r.status = "accepted"
     /\ patients[r.patient_id].exists
     /\ donors[r.donor_id].exists)
      => /\ patients[r.patient_id].status = "Matched"
         /\ patients[r.patient_id].matched_donor_id = r.donor_id
         /\ donors[r.donor_id].status = "Matched"
         /\ donors[r.donor_id].matched_patient_id = r.patient_id

\* the accepted request of recipient p and donor d exists
AcceptedPair(p, d) ==
  \E rid \in DOMAIN organ_requests :
    /\ organ_requests[rid].patient_id = p
    /\ organ_requests[rid].donor_id = d
    /\ organ_requests[rid].status = "accepted"

\* C29: a completeTransplant call that names a donor other than the
\* recipient's matched donor, or a pair without an accepted request, changes
\* no donor and no request.
C29_CompleteChecksPair ==
  [][\A h \in Hospitals, p \in PatientIds, d \in DonorIds, code \in Codes :
       (/\ patients[p].matched_donor_id # d \/ ~AcceptedPair(p, d)
        /\ CompleteTransplant(h, p, d, code))
         => UNCHANGED <<donors, organ_requests>>]_vars

\* a create, a respond or a completeTransplant call has been answered
LifecycleCall ==
  \/ \E h \in Hospitals, p \in PatientIds, d \in DonorIds, to \in Hospitals,
        code \in Codes : SendRequest(h, p, d, to, code)
  \/ \E h \in Hospitals, rid \in RequestIds, st \in Decisions, code \in Codes :
       RespondAnswers(h, rid, st, code)
  \/ \E h \in Hospitals, p \in PatientIds, d \in DonorIds, code \in Codes :
       CompleteTransplant(h, p, d, code)
  \/ \E h \in Hospitals, p \in PatientIds, code \in Codes :
       PatchCompleteTransplant(h, p, code)

\* C30: Completed and Donated are absorbing.  No create, respond or
\* completeTransplant call changes the status or the matched reference of a
\* recipient that is Completed or of a donor that is Donated.
C30_CompletedDonatedAbsorbing ==
  [][LifecycleCall =>
       /\ \A p \in PatientIds :
            patients[p].status = "Completed" =>
              /\ patients'[p].status = "Completed"
              /\ patients'[p].matched_donor_id = patients[p].matched_donor_id
       /\ \A d \in DonorIds :
            donors[d].status = "Donated" =>
              /\ donors'[d].status = "Donated"
              /\ donors'[d].matched_patient_id = donors[d].matched_patient_id]_vars

====
